---- MODULE Spec2Model ----
(***************************************************************************)
(* Session memory and query understanding: the message log, the           *)
(* compaction policy of SessionMemoryManager and the turn pipeline of     *)
(* ChatAssistant.process_user_message, and the context assembly of         *)
(* QueryUnderstandingPipeline.process_query.                              *)
(*                                                                         *)
(* Python values are modelled as follows.  An Optional value is a         *)
(* sequence of length 0 (None) or 1.  A message is a record               *)
(* [role, content, timestamp]; role and content are strings, a timestamp  *)
(* is a natural number (0 stands for a missing or empty timestamp, which  *)
(* Python treats as falsy).  datetime.now() is the variable clock, which   *)
(* advances every time a value read from it is stored.  Token counts      *)
(* follow the character fallback of get_context_size (len // 4); the      *)
(* tiktoken branch is a third-party function of the same string.          *)
(***************************************************************************)
EXTENDS Integers, Sequences, FiniteSets, TLC

\* ------------------------------------------------------------------ bounds
MaxOps == 3
MaxWindow == 2
MaxKeep == 2

\* ------------------------------------------------------- python helpers
None == << >>
Some(x) == << x >>
IsNone(o) == o = << >>
Get(o) == o[1]

Min(a, b) == IF a < b THEN a ELSE b
Max(a, b) == IF a > b THEN a ELSE b

\* s[i:] for any integer i
PySliceFrom(s, i) ==
    LET start == IF i < 0 THEN Max(Len(s) + i, 0) ELSE Min(i, Len(s))
    IN  SubSeq(s, start + 1, Len(s))

\* s[:j] for any integer j
PySliceTo(s, j) ==
    LET stop == IF j < 0 THEN Max(Len(s) + j, 0) ELSE Min(j, Len(s))
    IN  SubSeq(s, 1, stop)

\* d.setdefault(k, v) on a dict modelled as a function
SetDefault(d, k, v) ==
    IF k \in DOMAIN d THEN d
    ELSE [x \in DOMAIN d \cup {k} |-> IF x = k THEN v ELSE d[x]]

\* "\n".join(lines)
RECURSIVE JoinLines(_)
JoinLines(lines) ==
    IF lines = << >> THEN ""
    ELSE IF Len(lines) = 1 THEN lines[1]
    ELSE lines[1] \o "\n" \o JoinLines(Tail(lines))

\* -------------------------------------------------------------- messages
Message(role, content, timestamp) ==
    [role |-> role, content |-> content, timestamp |-> timestamp]

\* ------------------------------------------------------- configuration
\* token_threshold values tried (session_memory.py:22 accepts any int)
Thresholds == {0, 4, 9}
\* recent_messages_window: None or an int (session_memory.py:25)
Windows == {None} \cup {Some(w) : w \in 0..MaxWindow}
\* keep_recent_after_summary (session_memory.py:26)
Keeps == 0..MaxKeep

CharsPerToken == 4

\* ---------------------------------------------------------------- state
VARIABLES
    token_threshold,            \* SessionMemoryManager.token_threshold
    recent_messages_window,     \* Optional[int]
    keep_recent_after_summary,  \* int
    current_summary,            \* Optional[SessionMemory]
    conversation_history,       \* List[Dict]
    clock,                      \* datetime.now()
    pc,                         \* position inside process_user_message
    user_input,                 \* argument of the turn in flight
    summary_triggered,          \* local of process_user_message
    query_understanding,        \* Optional[CoreQueryUnderstanding] of the turn
    response,                   \* Optional[str] of the turn
    obs,                        \* what the last turn / compaction did (history variable)
    assembly,                   \* the process_query call in flight: arguments, locals, result
    loader,                     \* the log file and the load_conversation_log call in flight
    ops                         \* how many operations were started

config == << token_threshold, recent_messages_window, keep_recent_after_summary >>
memory == << current_summary, conversation_history >>
locals == << user_input, summary_triggered, query_understanding, response >>
vars == << token_threshold, recent_messages_window, keep_recent_after_summary,
           current_summary, conversation_history, clock, pc, user_input,
           summary_triggered, query_understanding, response, obs, assembly,
           loader, ops >>

\* ------------------------------------------- SessionMemoryManager (pure)
AddMessageToFront(history, role, content, timestamp, now) ==
    << Message(role, content, IF timestamp # 0 THEN timestamp ELSE now) >> \o history

\* add_message: timestamp or datetime.now().isoformat()
AddMessageTo(history, role, content, timestamp, now) ==
    Append(history, Message(role, content, IF timestamp # 0 THEN timestamp ELSE now))

\* the messages get_context_size(None) counts
ContextWindow(history, window) ==
    IF ~IsNone(window) THEN PySliceFrom(history, 0 - Get(window)) ELSE history

\* full_context of get_context_size
FullContext(messages) ==
    JoinLines([i \in 1..Len(messages) |->
                  messages[i].role \o ": " \o messages[i].content])

\* get_context_size(messages), character fallback
GetContextSize(messages) ==
    IF messages = << >> THEN 0 ELSE Len(FullContext(messages)) \div CharsPerToken

ShouldSummarize(history, window, threshold) ==
    GetContextSize(ContextWindow(history, window)) >= threshold

GetRecentMessagesForSummarization(history, window) ==
    IF ~IsNone(window) THEN PySliceFrom(history, 0 - Get(window)) ELSE history

CreateMinimalSummaryWholeLog(message_range, now) ==
    [memory_id |-> << "mem_", now >>,
     created_at |-> now,
     conversation_state |-> "Conversation summary (parsing error occurred)",
     user_context |-> Some([preferences |-> << >>, constraints |-> << >>, goals |-> << >>]),
     shared_context |-> << >>,
     open_threads |-> << >>,
     scope |-> [from |-> 0, to |-> message_range[2]]]

\* _create_minimal_summary(message_range)
CreateMinimalSummary(message_range, now) ==
    [memory_id |-> << "mem_", now >>,
     created_at |-> now,
     conversation_state |-> "Conversation summary (parsing error occurred)",
     user_context |-> Some([preferences |-> << >>, constraints |-> << >>, goals |-> << >>]),
     shared_context |-> << >>,
     open_threads |-> << >>,
     scope |-> [from |-> message_range[1], to |-> message_range[2]]]

\* _generate_summary_with_llm: llm is the outcome of generate_structured
GenerateSummaryWithLlm(llm, message_range, now) ==
    IF llm.kind = "ok"
    THEN LET summary_dict == llm.value   \* summary_obj.model_dump(): every field is a key
             d1 == SetDefault(summary_dict, "scope",
                              [from |-> message_range[1], to |-> message_range[2]])
             d2 == SetDefault(d1, "memory_id", << "mem_", now >>)
         IN  SetDefault(d2, "created_at", now)
    ELSE CreateMinimalSummary(message_range, now)

TrimHistoryClearingAll(history, messages_to_summarize, start_idx, keep) ==
    IF keep > 0
    THEN IF Len(history) > Len(messages_to_summarize) + keep
         THEN PySliceTo(history, start_idx) \o PySliceFrom(history, 0 - keep)
         ELSE IF Len(messages_to_summarize) > keep
              THEN PySliceFrom(history, 0 - keep)
              ELSE history
    ELSE << >>

TrimHistoryKeepingPrefix(history, messages_to_summarize, start_idx, keep) ==
    IF keep > 0
    THEN IF Len(messages_to_summarize) > keep
         THEN PySliceTo(history, start_idx) \o PySliceFrom(history, 0 - keep)
         ELSE history
    ELSE IF Len(history) > Len(messages_to_summarize)
         THEN PySliceTo(history, start_idx)
         ELSE << >>

TrimHistoryAlwaysLastK(history, messages_to_summarize, start_idx, keep) ==
    IF keep > 0
    THEN IF Len(history) > Len(messages_to_summarize) + keep
         THEN PySliceTo(history, start_idx) \o PySliceFrom(history, 0 - keep)
         ELSE PySliceFrom(history, 0 - keep)
    ELSE IF Len(history) > Len(messages_to_summarize)
         THEN PySliceTo(history, start_idx)
         ELSE << >>

TrimHistoryOnlyLongLog(history, messages_to_summarize, start_idx, keep) ==
    IF keep > 0
    THEN IF Len(history) > Len(messages_to_summarize) + keep
         THEN PySliceTo(history, start_idx) \o PySliceFrom(history, 0 - keep)
         ELSE history
    ELSE IF Len(history) > Len(messages_to_summarize)
         THEN PySliceTo(history, start_idx)
         ELSE << >>

\* the trim of summarize_conversation (lines 155-176)
TrimHistory(history, messages_to_summarize, start_idx, keep) ==
    IF keep > 0
    THEN IF Len(history) > Len(messages_to_summarize) + keep
         THEN PySliceTo(history, start_idx) \o PySliceFrom(history, 0 - keep)
         ELSE IF Len(messages_to_summarize) > keep
              THEN PySliceFrom(history, 0 - keep)
              ELSE history
    ELSE IF Len(history) > Len(messages_to_summarize)
         THEN PySliceTo(history, start_idx)
         ELSE << >>

\* start_idx of summarize_conversation (line 137)
StartIdx(history, messages_to_summarize) == Len(history) - Len(messages_to_summarize)

EndIdxOffByOne(history) == Len(history)

\* end_idx of summarize_conversation (line 138)
EndIdx(history) == Len(history) - 1

RaisedByPropagating(messages_to_summarize, llm, save_ok) ==
    IF messages_to_summarize = << >> THEN "ValueError"
    ELSE IF llm.kind = "raise" THEN "SummarizerError"
    ELSE IF ~save_ok THEN "OSError"
    ELSE ""

\* the exception summarize_conversation ends with, "" if it returns: the
\* ValueError of line 134, or what _save_summary raises (line 153); a failure
\* of the summarizer is caught in _generate_summary_with_llm (lines 251-253)
RaisedBy(messages_to_summarize, llm, save_ok) ==
    IF messages_to_summarize = << >> THEN "ValueError"
    ELSE IF ~save_ok THEN "OSError"
    ELSE ""

NewActiveRecordMerged(summary, new_summary) ==
    IF IsNone(summary) THEN Some(new_summary)
    ELSE Some([new_summary EXCEPT
                  !.shared_context = Get(summary).shared_context \o @,
                  !.open_threads = Get(summary).open_threads \o @])

NewActiveRecordDroppedOnFallback(summary, new_summary) ==
    IF new_summary.conversation_state = "Conversation summary (parsing error occurred)"
    THEN None
    ELSE Some(new_summary)

\* self.current_summary = summary (line 150)
NewActiveRecord(summary, new_summary) == Some(new_summary)

\* summarize_conversation(llm_client): what it leaves behind and whether it raised.
\* llm is the summarizer's outcome, save_ok whether _save_summary could write.
SummarizeConversation(history, summary, window, keep, llm, save_ok, now) ==
    LET messages_to_summarize == GetRecentMessagesForSummarization(history, window)
        start_idx == StartIdx(history, messages_to_summarize)
        end_idx == EndIdx(history)
        raised == RaisedBy(messages_to_summarize, llm, save_ok)
        new_summary == GenerateSummaryWithLlm(llm, << start_idx, end_idx >>, now)
    IN  IF raised = "ValueError"
        THEN [raised |-> raised, called |-> FALSE, summary |-> summary,
              history |-> history, messages |-> << >>, range |-> << 0, 0 - 1 >>]
        ELSE [raised |-> raised, called |-> TRUE,
              summary |-> NewActiveRecord(summary, new_summary),
              history |-> IF raised = ""
                          THEN TrimHistory(history, messages_to_summarize,
                                           start_idx, keep)
                          ELSE history,
              messages |-> messages_to_summarize,
              range |-> << start_idx, end_idx >>]

\* ---------------------------------------------------------- collaborators
\* a SessionMemory object as the summarizer returns it (core_schema.py:29-60);
\* model_dump() has every field as a key
SessionMemory(memory_id, created_at, state, user_context, shared, threads, scope) ==
    [memory_id |-> memory_id,
     created_at |-> created_at,
     conversation_state |-> state,
     user_context |-> user_context,
     shared_context |-> shared,
     open_threads |-> threads,
     scope |-> scope]

\* What llm_client.generate_structured(SessionMemory, ...) can do when asked to
\* summarize message_range: return an object (echoing the range it was told and
\* with an empty conversation_state, which the schema allows, or with a scope
\* of its own), or raise (error, timeout, output failing validation).
SummarizerOutcomes(message_range, now) ==
    { [kind |-> "ok",
       value |-> SessionMemory(<< "mem_", 1 >>, now, "", None, << >>, << >>,
                               [from |-> message_range[1], to |-> message_range[2]])],
      [kind |-> "ok",
       value |-> SessionMemory(<< "mem_", 2 >>, now, "state B",
                               Some([preferences |-> << "dark mode" >>,
                                     constraints |-> << >>, goals |-> << >>]),
                               << "fact" >>, << "thread" >>,
                               [from |-> 0, to |-> 0])],
      [kind |-> "raise", value |-> << >>] }

\* CoreQueryUnderstandingLLMOutput (core_schema.py:67-87)
OracleOutput(is_ambiguous, clarified_query, clarifying_questions, selected_memory) ==
    [is_ambiguous |-> is_ambiguous,
     clarified_query |-> clarified_query,
     clarifying_questions |-> clarifying_questions,
     selected_memory |-> selected_memory]

\* What the query-understanding call can do
OracleOutcomes ==
    { [kind |-> "ok", value |-> OracleOutput(FALSE, "clarified", << >>, << >>)],
      [kind |-> "ok", value |-> OracleOutput(TRUE, "", << "q1", "q2", "q3", "q4" >>, << "fact" >>)],
      [kind |-> "ok", value |-> OracleOutput(TRUE, "clarified", << >>, << >>)],
      [kind |-> "raise", value |-> << >>] }

\* What llm_client.generate can do
GeneratorOutcomes ==
    { [kind |-> "ok", value |-> "ok"], [kind |-> "raise", value |-> ""] }

\* user inputs tried
Inputs == {"hi"}

\* transcripts tried by load_conversation_log, as decoded records
\* (role, content, timestamp; 0 = no timestamp)
Transcripts ==
    { << Message("user", "hello there", 1) >>,
      << Message("user", "hello there", 0), Message("assistant", "hello", 0) >> }

\* ------------------------------------------------------------- the turn
ClarifyIntro ==
    "Cau hoi hien tai van hoi mo ho so voi ngu canh truoc do, minh can ban lam ro them truoc khi tra loi chinh xac.\n\nBan giup tra loi mot vai cau hoi sau:"

MaxClarifying == 3
RecentForQuery == 5

Digit(i) == CASE i = 1 -> "1" [] i = 2 -> "2" [] i = 3 -> "3" [] OTHER -> "?"

\* the clarification request of _generate_response (lines 148-157)
ClarificationRequest(clarifying) ==
    LET shown == PySliceTo(clarifying, MaxClarifying)
    IN  JoinLines(<< ClarifyIntro >> \o
                  [i \in 1..Len(shown) |-> Digit(i) \o ". " \o shown[i]])

AsksToClarifyWhenAmbiguous(qu) == qu.is_ambiguous

\* whether _generate_response answers with the clarification request
AsksToClarify(qu) == qu.is_ambiguous /\ qu.clarifying_questions # << >>

\* prompt of _generate_response (lines 160-165)
GeneratorPrompt(context) ==
    "You are a helpful AI assistant. Answer based on the context below.\n\n"
       \o context
       \o "\n\nProvide a clear, helpful response. If there are mild ambiguities, briefly state your assumption before answering."

\* recent_messages of process_user_message (lines 105-109)
RecentMessages(history, input, now) ==
    LET temp_history == history \o << Message("user", input, now) >>
    IN  IF Len(temp_history) > RecentForQuery
        THEN PySliceFrom(temp_history, 0 - RecentForQuery)
        ELSE temp_history

\* get_memory_context (session_memory.py:277-298)
GetMemoryContext(summary) ==
    IF IsNone(summary) THEN << >>
    ELSE LET s == Get(summary)
         IN  << [conversation_state |-> s.conversation_state,
                 user_context |-> s.user_context,
                 shared_context |-> s.shared_context,
                 open_threads |-> s.open_threads] >>

\* ------------------------------------------- QueryUnderstandingPipeline
\* A timestamp t > 0 stands for an ISO string; the strings 2k-1 and 2k agree on
\* their first 26 characters and differ after them (e.g. in a UTC offset), and
\* the order of the numbers is the order of the strings.  0 is a missing or
\* empty timestamp, whose prefix "" sorts before every other.
TimestampPrefix(timestamp) == (timestamp + 1) \div 2

RecentShown == 5
RenderLimit == 400

CutNothing(content, limit) == content

\* content[:limit]
Cut(content, limit) ==
    IF Len(content) <= limit THEN content ELSE SubSeq(content, 1, limit)

\* the entry the padding loop inserts (query_understanding.py:159)
Placeholder == [role |-> "(none)", content |-> "(no earlier message)"]

\* "\n".join(f"- {x}" for x in items)
Bullets(items) == JoinLines([i \in 1..Len(items) |-> "- " \o items[i]])

\* original_block of _build_final_context (lines 148-151)
OriginalBlock(query, clarified_query, clarifying_questions, is_ambiguous) ==
    LET base == "ORIGINAL QUERY:\n" \o query \o "\n\nCLARIFIED QUERY:\n"
                   \o (IF clarified_query # "" THEN clarified_query ELSE query)
    IN  IF is_ambiguous /\ clarifying_questions # << >>
        THEN base \o "\n\nCLARIFYING_QUESTIONS (query was ambiguous; use these to ask the user naturally, not as a rigid list):\n"
                  \o Bullets(clarifying_questions)
        ELSE base

ConversationStateWithoutPlaceholder(session_memory_context) ==
    IF session_memory_context = << >> THEN "(none)"
    ELSE session_memory_context[1].conversation_state

\* conversation_state of _build_final_context (line 152); the context is {} or
\* the dict get_memory_context built
ConversationState(session_memory_context) ==
    LET found == IF session_memory_context = << >> THEN ""
                 ELSE session_memory_context[1].conversation_state
    IN  IF found # "" THEN found ELSE "(none)"

SelectedBlockWithoutPlaceholder(selected_memory) == Bullets(selected_memory)

\* selected_block (line 153)
SelectedBlock(selected_memory) ==
    IF selected_memory # << >> THEN Bullets(selected_memory) ELSE "None."

RECURSIVE PadToShownAtEnd(_)
PadToShownAtEnd(recent_slice) ==
    IF Len(recent_slice) < RecentShown
    THEN PadToShownAtEnd(Append(recent_slice, Placeholder))
    ELSE recent_slice

\* the while loop of lines 158-159
RECURSIVE PadToShown(_)
PadToShown(recent_slice) ==
    IF Len(recent_slice) < RecentShown
    THEN PadToShown(<< Placeholder >> \o recent_slice)
    ELSE recent_slice

\* the timestamp of a message dict: m.get("timestamp") or ""
TimestampOf(m) == IF "timestamp" \in DOMAIN m THEN m.timestamp ELSE 0

SortKeyWholeTimestamp(item) == << TimestampOf(item[2]), item[1] >>

\* _sort_key of an enumerate() item (i, m)
SortKey(item) == << TimestampPrefix(TimestampOf(item[2])), item[1] >>

\* tuple comparison of two sort keys
KeyLess(a, b) == a[1] < b[1] \/ (a[1] = b[1] /\ a[2] < b[2])

\* enumerate(recent_messages)
Enumerate(recent_messages) ==
    [i \in 1..Len(recent_messages) |-> << i - 1, recent_messages[i] >>]

\* sorted(items, key=_sort_key): a stable insertion of each item in turn
RECURSIVE InsertByKey(_, _)
InsertByKey(sorted, item) ==
    IF sorted = << >> THEN << item >>
    ELSE IF KeyLess(SortKey(item), SortKey(sorted[Len(sorted)]))
         THEN Append(InsertByKey(SubSeq(sorted, 1, Len(sorted) - 1), item),
                     sorted[Len(sorted)])
         ELSE Append(sorted, item)

RECURSIVE SortedByKey(_)
SortedByKey(items) ==
    IF items = << >> THEN << >>
    ELSE InsertByKey(SortedByKey(SubSeq(items, 1, Len(items) - 1)), items[Len(items)])

\* recent_slice of _build_final_context (lines 155-170)
RecentSlice(recent_messages, has_session_summary) ==
    IF has_session_summary
    THEN PadToShown(PySliceFrom(recent_messages, 0 - RecentShown))
    ELSE LET sorted == SortedByKey(Enumerate(recent_messages))
         IN  [i \in 1..Len(sorted) |-> sorted[i][2]]

\* recent_label (lines 160, 170)
RecentLabel(has_session_summary) ==
    IF has_session_summary THEN "RECENT MESSAGES (last 5)" ELSE "RECENT MESSAGES"

\* recent_lines (lines 172-176)
RecentLines(recent_slice) ==
    [i \in 1..Len(recent_slice) |->
        recent_slice[i].role \o ": " \o Cut(recent_slice[i].content, RenderLimit)]

BuildFinalContextSkippingEmpty(query, clarified_query, session_memory_context, selected_memory, recent_messages, has_session_summary, clarifying_questions, is_ambiguous) ==
    LET original_block == OriginalBlock(query, clarified_query, clarifying_questions,
                                        is_ambiguous)
        conversation_state == ConversationState(session_memory_context)
        selected_block == SelectedBlock(selected_memory)
        recent_slice == RecentSlice(recent_messages, has_session_summary)
        recent_label == RecentLabel(has_session_summary)
        recent_lines == RecentLines(recent_slice)
        recent_block == JoinLines(recent_lines)
    IN  [original_block |-> original_block,
         conversation_state |-> conversation_state,
         selected_block |-> selected_block,
         recent_slice |-> recent_slice,
         recent_label |-> recent_label,
         recent_lines |-> recent_lines,
         recent_block |-> recent_block,
         final_context |->
             original_block \o "\n\n"
                \o "CONVERSATION STATE:\n" \o conversation_state \o "\n\n"
                \o (IF selected_memory = << >> THEN ""
                    ELSE "SELECTED MEMORY:\n" \o selected_block \o "\n\n")
                \o recent_label \o ":\n" \o recent_block]

\* the locals of _build_final_context when it returns, and the string it returns
BuildFinalContext(query, clarified_query, session_memory_context, selected_memory, recent_messages, has_session_summary, clarifying_questions, is_ambiguous) ==
    LET original_block == OriginalBlock(query, clarified_query, clarifying_questions,
                                        is_ambiguous)
        conversation_state == ConversationState(session_memory_context)
        selected_block == SelectedBlock(selected_memory)
        recent_slice == RecentSlice(recent_messages, has_session_summary)
        recent_label == RecentLabel(has_session_summary)
        recent_lines == RecentLines(recent_slice)
        recent_block == JoinLines(recent_lines)
    IN  [original_block |-> original_block,
         conversation_state |-> conversation_state,
         selected_block |-> selected_block,
         recent_slice |-> recent_slice,
         recent_label |-> recent_label,
         recent_lines |-> recent_lines,
         recent_block |-> recent_block,
         final_context |->
             original_block \o "\n\n"
                \o "CONVERSATION STATE:\n" \o conversation_state \o "\n\n"
                \o "SELECTED MEMORY:\n" \o selected_block \o "\n\n"
                \o recent_label \o ":\n" \o recent_block]

\* ------------------------------------------------------ transcripts as text
\* text[i] for a 0-based index i, "" past the end
CharAt(text, i) == IF i < Len(text) THEN SubSeq(text, i + 1, i + 1) ELSE ""

\* text[a:b] for 0 <= a <= b <= len(text)
Slice(text, a, b) == SubSeq(text, a + 1, b)

\* the characters c with ord(c) < 32 that the texts tried contain
ControlChars == {"\n", "\r", "\t"}

\* a decoded JSON value: a string or an object (a dict, as its items in order)
JStr(s) == [kind |-> "str", str |-> s, items |-> << >>]
JObj(items) == [kind |-> "obj", str |-> "", items |-> items]

\* datetime.isoformat() / the timestamp strings of a transcript; the model
\* keeps timestamps as naturals, 0 for a missing or empty one
MaxStampText == 9
IsoFormat(timestamp) == "t" \o << "1", "2", "3", "4", "5", "6", "7", "8", "9" >>[timestamp]

\* the natural a timestamp value of a decoded record stands for; a string
\* that is no timestamp of the table counts as one past the table
TimestampValue(value) ==
    IF value.kind # "str" \/ value.str = "" THEN 0
    ELSE IF \E n \in 1..MaxStampText : IsoFormat(n) = value.str
         THEN CHOOSE n \in 1..MaxStampText : IsoFormat(n) = value.str
         ELSE MaxStampText + 1

EscapeCharUnescaped(c) == c

\* one character of a string as json.dumps(ensure_ascii=False) writes it
EscapeChar(c) ==
    CASE c = "\"" -> "\\\""
      [] c = "\\" -> "\\\\"
      [] c = "\n" -> "\\n"
      [] c = "\r" -> "\\r"
      [] c = "\t" -> "\\t"
      [] OTHER -> c

RECURSIVE EscapeRange(_, _, _)
EscapeRange(s, a, b) ==
    IF a > b THEN ""
    ELSE IF a = b THEN EscapeChar(SubSeq(s, a, a))
    ELSE LET mid == (a + b) \div 2
         IN  EscapeRange(s, a, mid) \o EscapeRange(s, mid + 1, b)

JsonString(s) == "\"" \o EscapeRange(s, 1, Len(s)) \o "\""

\* json.dumps(value, ensure_ascii=False) with the default separators
RECURSIVE JsonDumps(_)
RECURSIVE JsonDumpsItems(_, _)
JsonDumpsItems(items, k) ==
    IF k > Len(items) THEN ""
    ELSE (IF k > 1 THEN ", " ELSE "")
            \o JsonString(items[k][1]) \o ": " \o JsonDumps(items[k][2])
            \o JsonDumpsItems(items, k + 1)

JsonDumps(value) ==
    IF value.kind = "str" THEN JsonString(value.str)
    ELSE "{" \o JsonDumpsItems(value.items, 1) \o "}"

\* entry of log_message (conversation_logger.py:49-55); metadata is a dict as
\* its items, empty for None
Entry(role, content, metadata, timestamp, now) ==
    JObj(<< << "role", JStr(role) >>,
            << "content", JStr(content) >>,
            << "timestamp", JStr(IsoFormat(IF timestamp # 0 THEN timestamp ELSE now)) >> >>
         \o (IF metadata # << >> THEN << << "metadata", JObj(metadata) >> >> ELSE << >>))

\* the line log_message writes (conversation_logger.py:57-58)
LogLine(role, content, metadata, timestamp, now) ==
    JsonDumps(Entry(role, content, metadata, timestamp, now)) \o "\n"

\* sanitized of load_conversation_log (chat_assistant.py:229-232)
SanitizeChar(c) == IF c \in ControlChars /\ c # "\t" THEN " " ELSE c

RECURSIVE SanitizeRange(_, _, _)
SanitizeRange(raw_chunk, a, b) ==
    IF a > b THEN ""
    ELSE IF a = b THEN SanitizeChar(SubSeq(raw_chunk, a, a))
    ELSE LET mid == (a + b) \div 2
         IN  SanitizeRange(raw_chunk, a, mid) \o SanitizeRange(raw_chunk, mid + 1, b)

Sanitize(raw_chunk) == SanitizeRange(raw_chunk, 1, Len(raw_chunk))

\* json.loads: the decoder of the standard library, for the JSON the texts
\* tried can hold (strings and objects; no numbers, literals, arrays, and no
\* \b, \f or \uXXXX escapes). A result is [ok, end, value]: end is the 1-based
\* position after the value.
JsonWhitespace == {" ", "\t", "\n", "\r"}
DecodeError == [ok |-> FALSE, end |-> 0, value |-> JStr("")]
Decoded(end, value) == [ok |-> TRUE, end |-> end, value |-> value]
At(s, i) == IF i >= 1 /\ i <= Len(s) THEN SubSeq(s, i, i) ELSE ""

RECURSIVE SkipWhitespace(_, _)
SkipWhitespace(s, i) ==
    IF At(s, i) \in JsonWhitespace THEN SkipWhitespace(s, i + 1) ELSE i

\* the character an escape \e stands for ("" if e is no escape)
Unescape(e) ==
    CASE e = "\"" -> "\""
      [] e = "\\" -> "\\"
      [] e = "/" -> "/"
      [] e = "n" -> "\n"
      [] e = "r" -> "\r"
      [] e = "t" -> "\t"
      [] OTHER -> ""

\* py_scanstring in strict mode, from the position after the opening quote
RECURSIVE ScanString(_, _, _)
ScanString(s, i, acc) ==
    LET c == At(s, i)
    IN  IF c = "" THEN DecodeError
        ELSE IF c = "\"" THEN Decoded(i + 1, JStr(acc))
        ELSE IF c = "\\"
             THEN IF Unescape(At(s, i + 1)) = "" THEN DecodeError
                  ELSE ScanString(s, i + 2, acc \o Unescape(At(s, i + 1)))
        ELSE IF c \in ControlChars THEN DecodeError
        ELSE ScanString(s, i + 1, acc \o c)

RECURSIVE ParseValue(_, _)
RECURSIVE ParsePairs(_, _, _)

\* JSONObject, from the position after the opening brace
ParseObject(s, i) ==
    LET j == SkipWhitespace(s, i)
    IN  IF At(s, j) = "}" THEN Decoded(j + 1, JObj(<< >>))
        ELSE IF At(s, j) # "\"" THEN DecodeError
        ELSE ParsePairs(s, j, << >>)

\* the pairs of an object, from the opening quote of a key
ParsePairs(s, j, items) ==
    LET key == ScanString(s, j + 1, "")
        colon == SkipWhitespace(s, key.end)
        value == ParseValue(s, SkipWhitespace(s, colon + 1))
        after == SkipWhitespace(s, value.end)
        pairs == Append(items, << key.value.str, value.value >>)
        next == SkipWhitespace(s, after + 1)
    IN  IF ~key.ok THEN DecodeError
        ELSE IF At(s, colon) # ":" THEN DecodeError
        ELSE IF ~value.ok THEN DecodeError
        ELSE IF At(s, after) = "}" THEN Decoded(after + 1, JObj(pairs))
        ELSE IF At(s, after) # "," THEN DecodeError
        ELSE IF At(s, next) # "\"" THEN DecodeError
        ELSE ParsePairs(s, next, pairs)

ParseValue(s, i) ==
    IF At(s, i) = "\"" THEN ScanString(s, i + 1, "")
    ELSE IF At(s, i) = "{" THEN ParseObject(s, i + 1)
    ELSE DecodeError

\* json.loads(s): the value, or JSONDecodeError (ok = FALSE)
JsonLoads(s) ==
    LET value == ParseValue(s, SkipWhitespace(s, 1))
    IN  IF value.ok /\ SkipWhitespace(s, value.end) = Len(s) + 1
        THEN value ELSE DecodeError

\* msg.get(key, default) of a decoded object: the last pair with that key wins
DictGet(items, key, default) ==
    LET hits == {k \in 1..Len(items) : items[k][1] = key}
    IN  IF hits = {} THEN default
        ELSE items[CHOOSE k \in hits : \A h \in hits : h <= k][2]

\* a string value as the string it is, any other value as decoded
Plain(value) == IF value.kind = "str" THEN value.str ELSE value

ScanStepCountingInStrings(s, ch, i) ==
    IF s.escape THEN [s EXCEPT !.escape = FALSE]
    ELSE IF ch = "\\" THEN [s EXCEPT !.escape = TRUE]
    ELSE IF ch = "\"" /\ ~s.escape THEN [s EXCEPT !.in_string = ~s.in_string]
    ELSE IF ch = "{"
         THEN [s EXCEPT !.start_idx = IF s.brace_depth = 0 THEN Some(i) ELSE @,
                        !.brace_depth = @ + 1]
    ELSE IF ch = "}"
         THEN IF s.brace_depth - 1 = 0 /\ ~IsNone(s.start_idx)
              THEN [s EXCEPT !.brace_depth = @ - 1,
                             !.chunks = Append(@, Slice(s.text, Get(s.start_idx), i + 1)),
                             !.start_idx = None]
              ELSE [s EXCEPT !.brace_depth = @ - 1]
    ELSE s

\* one iteration of the scan loop of load_conversation_log for the character
\* ch at index i (chat_assistant.py:195-219); s holds the text and the
\* scanner's locals
ScanStep(s, ch, i) ==
    IF s.escape THEN [s EXCEPT !.escape = FALSE]
    ELSE IF ch = "\\" THEN [s EXCEPT !.escape = TRUE]
    ELSE IF ch = "\"" /\ ~s.escape THEN [s EXCEPT !.in_string = ~s.in_string]
    ELSE IF s.in_string THEN s
    ELSE IF ch = "{"
         THEN [s EXCEPT !.start_idx = IF s.brace_depth = 0 THEN Some(i) ELSE @,
                        !.brace_depth = @ + 1]
    ELSE IF ch = "}"
         THEN IF s.brace_depth - 1 = 0 /\ ~IsNone(s.start_idx)
              THEN [s EXCEPT !.brace_depth = @ - 1,
                             !.chunks = Append(@, Slice(s.text, Get(s.start_idx), i + 1)),
                             !.start_idx = None]
              ELSE [s EXCEPT !.brace_depth = @ - 1]
    ELSE s

\* no damage done to the file
NoFault == [kind |-> "none", record |-> 0, at |-> 0, split |-> FALSE, char |-> ""]

\* the conversation log file and the locals of load_conversation_log
LoaderInit ==
    [phase |-> "none",       \* "write", "scan", "decode", "done"
     lines |-> << >>,        \* the lines written to the file
     written |-> << >>,      \* the records log_message was called with
     fault |-> NoFault,      \* the damage done to the file
     existing |-> << >>,     \* the log when load_conversation_log was called
     branch |-> "",          \* the branch taken on the file's name: "jsonl", "json"
     caught |-> "",          \* the exception the outer except caught, "" if none
     text |-> "",
     i |-> 0,
     brace_depth |-> 0,
     in_string |-> FALSE,
     escape |-> FALSE,
     start_idx |-> None,
     chunks |-> << >>,
     next |-> 0,             \* index of raw_chunk in chunks
     loaded |-> 0,
     warnings |-> << >>]

\* no process_query call in flight
AssemblyInit ==
    [phase |-> "none",
     query |-> "",
     recent_messages |-> << >>,
     session_memory_context |-> << >>,
     has_session_summary |-> TRUE,
     llm_output |-> None,
     built |-> None,
     result |-> None]

ObsInit ==
    [kind |-> "none",            \* "turn", "manual" or "none"
     pre_history |-> << >>,      \* the log when the operation began
     pre_summary |-> None,       \* the active record when the operation began
     entered |-> FALSE,          \* summarize_conversation was entered
     messages |-> << >>,         \* messages_to_summarize
     range |-> << 0, 0 - 1 >>,   \* (start_idx, end_idx)
     llm |-> [kind |-> "none", value |-> << >>],   \* the summarizer's outcome
     save_ok |-> TRUE,           \* whether _save_summary could write
     raised |-> "",              \* what summarize_conversation raised, "" if it returned
     stamp |-> 0,                \* the clock value the new record was stamped with
     asked_to_clarify |-> FALSE, \* the response is the clarification request
     input |-> "",               \* the turn's user_input
     recent_messages |-> << >>,  \* the window handed to process_query
     memory_context |-> << >>,   \* the session_memory_context handed to process_query
     summarizer_calls |-> 0,
     oracle_calls |-> 0,
     generator_calls |-> 0,
     prompt |-> None,            \* the prompt handed to llm_client.generate
     outcome |-> "",             \* "" in flight, "ok", or the exception that ended it
     appended_at |-> 0 - 1]      \* 0-based index the turn's user message got

Init ==
    /\ token_threshold \in Thresholds
    /\ recent_messages_window \in Windows
    /\ keep_recent_after_summary \in Keeps
    /\ current_summary = None
    /\ conversation_history = << >>
    /\ clock = 1
    /\ pc = "idle"
    /\ user_input = ""
    /\ summary_triggered = FALSE
    /\ query_understanding = None
    /\ response = None
    /\ obs = ObsInit
    /\ assembly = AssemblyInit
    /\ loader = LoaderInit
    /\ ops = 0

ProcessUserMessageAppendFirst(input) ==
    /\ pc = "idle"
    /\ ops < MaxOps
    /\ ops' = ops + 1
    /\ user_input' = input
    /\ summary_triggered' = FALSE
    /\ query_understanding' = None
    /\ response' = None
    /\ conversation_history' = AddMessageTo(conversation_history, "user", input, 0, clock)
    /\ clock' = clock + 1
    /\ obs' = [ObsInit EXCEPT !.kind = "turn",
                              !.input = input,
                              !.pre_history = conversation_history,
                              !.pre_summary = current_summary]
    /\ pc' = IF ShouldSummarize(conversation_history', recent_messages_window,
                                token_threshold)
             THEN "summarize" ELSE "understand"
    /\ UNCHANGED << config, loader, current_summary, assembly >>

ProcessUserMessageReentrant(input) ==
    /\ ops < MaxOps
    /\ ops' = ops + 1
    /\ user_input' = input
    /\ summary_triggered' = FALSE
    /\ query_understanding' = None
    /\ response' = None
    /\ assembly' = AssemblyInit
    /\ obs' = [ObsInit EXCEPT !.kind = "turn",
                              !.input = input,
                              !.pre_history = conversation_history,
                              !.pre_summary = current_summary]
    /\ pc' = IF ShouldSummarize(conversation_history, recent_messages_window,
                                token_threshold)
             THEN "summarize" ELSE "understand"
    /\ UNCHANGED << config, loader, memory, clock >>

\* process_user_message, lines 73-95: entry and the compaction check
ProcessUserMessage(input) ==
    /\ pc = "idle"
    /\ ops < MaxOps
    /\ ops' = ops + 1
    /\ user_input' = input
    /\ summary_triggered' = FALSE
    /\ query_understanding' = None
    /\ response' = None
    /\ obs' = [ObsInit EXCEPT !.kind = "turn",
                              !.input = input,
                              !.pre_history = conversation_history,
                              !.pre_summary = current_summary]
    /\ pc' = IF ShouldSummarize(conversation_history, recent_messages_window,
                                token_threshold)
             THEN "summarize" ELSE "understand"
    /\ UNCHANGED << config, loader, memory, clock, assembly >>

\* the message_range summarize_conversation passes on (lines 137-147)
CompactionRange(history, window) ==
    << StartIdx(history, GetRecentMessagesForSummarization(history, window)),
       EndIdx(history) >>

\* the effects of one call of summarize_conversation on the manager; from is the
\* obs record of the operation that makes the call
DoSummarize(from, llm, save_ok) ==
    LET r == SummarizeConversation(conversation_history, current_summary,
                                   recent_messages_window, keep_recent_after_summary,
                                   llm, save_ok, clock)
    IN  /\ current_summary' = r.summary
        /\ conversation_history' = r.history
        /\ clock' = IF r.called THEN clock + 1 ELSE clock
        /\ obs' = [from EXCEPT !.entered = TRUE,
                               !.messages = r.messages,
                               !.range = r.range,
                               !.llm = IF r.called THEN llm ELSE @,
                               !.save_ok = IF r.called THEN save_ok ELSE @,
                               !.raised = r.raised,
                               !.stamp = IF r.called THEN clock ELSE @,
                               !.summarizer_calls = IF r.called THEN @ + 1 ELSE @,
                               !.outcome = IF from.kind = "manual" /\ r.raised = ""
                                           THEN "ok" ELSE r.raised]
        /\ pc' = IF r.raised = "" /\ from.kind = "turn" THEN "understand" ELSE "idle"
        /\ summary_triggered' = (r.raised = "" /\ from.kind = "turn")
        /\ user_input' = IF r.raised = "" /\ from.kind = "turn" THEN user_input ELSE ""

\* process_user_message, lines 96-101: the compaction of a turn
TurnSummarize ==
    /\ pc = "summarize"
    /\ \E save_ok \in BOOLEAN :
       \E llm \in SummarizerOutcomes(
                     CompactionRange(conversation_history, recent_messages_window),
                     clock) :
          DoSummarize(obs, llm, save_ok)
    /\ UNCHANGED << config, loader, query_understanding, response, assembly, ops >>

\* summarize_conversation called outside a turn (demo_cli.py:125-128)
ManualSummarize ==
    /\ pc = "idle"
    /\ ops < MaxOps
    /\ ops' = ops + 1
    /\ \E save_ok \in BOOLEAN :
       \E llm \in SummarizerOutcomes(
                     CompactionRange(conversation_history, recent_messages_window),
                     clock) :
          DoSummarize([ObsInit EXCEPT !.kind = "manual",
                                      !.pre_history = conversation_history,
                                      !.pre_summary = current_summary],
                      llm, save_ok)
    /\ UNCHANGED << config, loader, query_understanding, response, assembly >>

\* CoreQueryUnderstanding as process_query returns it (query_understanding.py:58-66)
CoreQueryUnderstanding(query, out, final_context) ==
    [original_query |-> query,
     is_ambiguous |-> out.is_ambiguous,
     clarified_query |-> out.clarified_query,
     clarifying_questions |-> out.clarifying_questions,
     selected_memory |-> out.selected_memory,
     final_context |-> final_context]

\* process_query once _run_core_llm has returned llm_output (lines 45-66): the
\* locals of _build_final_context and the CoreQueryUnderstanding returned
ProcessQuery(query, recent_messages, session_memory_context, has_session_summary, llm_output) ==
    LET built == BuildFinalContext(query, llm_output.clarified_query,
                                   session_memory_context, llm_output.selected_memory,
                                   recent_messages, has_session_summary,
                                   llm_output.clarifying_questions,
                                   llm_output.is_ambiguous)
    IN  [phase |-> "built",
         query |-> query,
         recent_messages |-> recent_messages,
         session_memory_context |-> session_memory_context,
         has_session_summary |-> has_session_summary,
         llm_output |-> Some(llm_output),
         built |-> Some(built),
         result |-> Some(CoreQueryUnderstanding(query, llm_output, built.final_context))]

TurnUnderstandRetrying ==
    /\ pc = "understand"
    /\ \E o \in OracleOutcomes :
       LET handed == [obs EXCEPT
                         !.oracle_calls = @ + 1,
                         !.recent_messages =
                             RecentMessages(conversation_history, user_input, clock),
                         !.memory_context = GetMemoryContext(current_summary)]
           call == ProcessQuery(user_input, handed.recent_messages,
                                handed.memory_context, TRUE, o.value)
       IN  IF o.kind = "ok"
           THEN /\ query_understanding' = call.result
                /\ assembly' = call
                /\ pc' = "respond"
                /\ obs' = handed
           ELSE /\ query_understanding' = None
                /\ assembly' = AssemblyInit
                /\ pc' = "understand"
                /\ obs' = handed
    /\ UNCHANGED << config, loader, memory, clock, response, ops, user_input, summary_triggered >>

\* process_user_message, lines 103-119: the query-understanding call
TurnUnderstand ==
    /\ pc = "understand"
    /\ \E o \in OracleOutcomes :
       LET handed == [obs EXCEPT
                         !.oracle_calls = @ + 1,
                         !.recent_messages =
                             RecentMessages(conversation_history, user_input, clock),
                         !.memory_context = GetMemoryContext(current_summary)]
           \* has_session_summary is not passed (lines 115-119): it defaults to True
           call == ProcessQuery(user_input, handed.recent_messages,
                                handed.memory_context, TRUE, o.value)
       IN  IF o.kind = "ok"
           THEN /\ query_understanding' = call.result
                /\ assembly' = call
                /\ pc' = "respond"
                /\ obs' = handed
                /\ UNCHANGED << user_input, summary_triggered >>
           ELSE /\ query_understanding' = None
                /\ assembly' = AssemblyInit
                /\ pc' = "idle"
                /\ obs' = [handed EXCEPT !.outcome = "OracleError"]
                /\ user_input' = ""
                /\ summary_triggered' = FALSE
    /\ UNCHANGED << config, loader, memory, clock, response, ops >>

TurnRespondAfterUserAppend ==
    /\ pc = "respond"
    /\ conversation_history' =
          AddMessageTo(conversation_history, "user", user_input, 0, clock)
    /\ clock' = clock + 1
    /\ LET qu == Get(query_understanding)
       IN  IF AsksToClarify(qu)
           THEN /\ response' = Some(ClarificationRequest(qu.clarifying_questions))
                /\ pc' = "append"
                /\ obs' = [obs EXCEPT !.asked_to_clarify = TRUE]
                /\ UNCHANGED << user_input, summary_triggered, query_understanding,
                                assembly >>
           ELSE \E g \in GeneratorOutcomes :
                   IF g.kind = "ok"
                   THEN /\ response' = Some(g.value)
                        /\ pc' = "append"
                        /\ obs' = [obs EXCEPT !.generator_calls = @ + 1,
                                              !.prompt = Some(GeneratorPrompt(qu.final_context))]
                        /\ UNCHANGED << user_input, summary_triggered,
                                        query_understanding, assembly >>
                   ELSE /\ response' = None
                        /\ pc' = "idle"
                        /\ obs' = [obs EXCEPT !.generator_calls = @ + 1,
                                              !.prompt = Some(GeneratorPrompt(qu.final_context)),
                                              !.outcome = "GeneratorError"]
                        /\ user_input' = ""
                        /\ summary_triggered' = FALSE
                        /\ query_understanding' = None
                        /\ assembly' = AssemblyInit
    /\ UNCHANGED << config, loader, current_summary, ops >>

\* process_user_message, line 122, and _generate_response (lines 140-175)
TurnRespond ==
    /\ pc = "respond"
    /\ LET qu == Get(query_understanding)
       IN  IF AsksToClarify(qu)
           THEN /\ response' = Some(ClarificationRequest(qu.clarifying_questions))
                /\ pc' = "append"
                /\ obs' = [obs EXCEPT !.asked_to_clarify = TRUE]
                /\ UNCHANGED << user_input, summary_triggered, query_understanding,
                                assembly >>
           ELSE \E g \in GeneratorOutcomes :
                   IF g.kind = "ok"
                   THEN /\ response' = Some(g.value)
                        /\ pc' = "append"
                        /\ obs' = [obs EXCEPT !.generator_calls = @ + 1,
                                              !.prompt = Some(GeneratorPrompt(qu.final_context))]
                        /\ UNCHANGED << user_input, summary_triggered,
                                        query_understanding, assembly >>
                   ELSE /\ response' = None
                        /\ pc' = "idle"
                        /\ obs' = [obs EXCEPT !.generator_calls = @ + 1,
                                              !.prompt = Some(GeneratorPrompt(qu.final_context)),
                                              !.outcome = "GeneratorError"]
                        /\ user_input' = ""
                        /\ summary_triggered' = FALSE
                        /\ query_understanding' = None
                        /\ assembly' = AssemblyInit
    /\ UNCHANGED << config, loader, memory, clock, ops >>

TurnAppendReplyFirst ==
    /\ pc = "append"
    /\ conversation_history' =
          AddMessageTo(AddMessageTo(conversation_history, "assistant", Get(response), 0,
                                    clock),
                       "user", user_input, 0, clock + 1)
    /\ clock' = clock + 2
    /\ obs' = [obs EXCEPT !.outcome = "ok", !.appended_at = Len(conversation_history)]
    /\ pc' = "idle"
    /\ user_input' = ""
    /\ summary_triggered' = FALSE
    /\ query_understanding' = None
    /\ response' = None
    /\ assembly' = AssemblyInit
    /\ UNCHANGED << config, loader, current_summary, ops >>

\* process_user_message, lines 126-135: the two appends that end the turn
TurnAppend ==
    /\ pc = "append"
    /\ conversation_history' =
          AddMessageTo(AddMessageTo(conversation_history, "user", user_input, 0, clock),
                       "assistant", Get(response), 0, clock + 1)
    /\ clock' = clock + 2
    /\ obs' = [obs EXCEPT !.outcome = "ok", !.appended_at = Len(conversation_history)]
    /\ pc' = "idle"
    /\ user_input' = ""
    /\ summary_triggered' = FALSE
    /\ query_understanding' = None
    /\ response' = None
    /\ assembly' = AssemblyInit
    /\ UNCHANGED << config, loader, current_summary, ops >>

\* add_message called from outside a turn (session_memory.py:61-68)
AddMessage(role, content, timestamp) ==
    /\ pc = "idle"
    /\ ops < MaxOps
    /\ ops' = ops + 1
    /\ conversation_history' = AddMessageTo(conversation_history, role, content,
                                            timestamp, clock)
    /\ clock' = IF timestamp # 0 THEN clock ELSE clock + 1
    /\ obs' = [ObsInit EXCEPT !.kind = "append",
                              !.pre_history = conversation_history,
                              !.pre_summary = current_summary,
                              !.outcome = "ok"]
    /\ UNCHANGED << config, loader, current_summary, pc, locals, assembly >>

\* the add_message loop of load_conversation_log (chat_assistant.py:241-246, 255-260)
RECURSIVE AddAll(_, _, _)
AddAll(history, records, now) ==
    IF records = << >> THEN history
    ELSE AddAll(AddMessageTo(history, Head(records).role, Head(records).content,
                             Head(records).timestamp, now),
                Tail(records),
                IF Head(records).timestamp # 0 THEN now ELSE now + 1)

\* how many of the records take their timestamp from the clock
Unstamped(records) == Cardinality({i \in 1..Len(records) : records[i].timestamp = 0})

\* load_conversation_log with a transcript that decodes to records
LoadConversationLog(records) ==
    /\ pc = "idle"
    /\ ops < MaxOps
    /\ ops' = ops + 1
    /\ conversation_history' = AddAll(conversation_history, records, clock)
    /\ clock' = clock + Unstamped(records)
    /\ obs' = [ObsInit EXCEPT !.kind = "load",
                              !.pre_history = conversation_history,
                              !.pre_summary = current_summary,
                              !.outcome = "ok"]
    /\ UNCHANGED << config, loader, current_summary, pc, locals, assembly >>

\* ------------------------------------- process_query called on its own
MaxRecent == 6
MaxSorted == 3
MaxStamp == 4

\* the message at position i of a window tried
WindowMessage(i, timestamp) ==
    Message(IF i % 2 = 1 THEN "user" ELSE "assistant",
            << "m1", "m2", "m3", "m4", "m5", "m6", "m7", "m8" >>[i],
            timestamp)

\* s repeated n times
RECURSIVE Repeat(_, _)
Repeat(s, n) ==
    IF n = 0 THEN ""
    ELSE LET half == Repeat(s, n \div 2)
         IN  half \o half \o (IF n % 2 = 1 THEN s ELSE "")

\* contents around the render limit: RenderLimit - 1 .. RenderLimit + 2 characters
LongContents == { Repeat("x", n) \o "yz" : n \in (RenderLimit - 3)..RenderLimit }

\* recent_messages tried: up to MaxSorted messages with any timestamps (missing,
\* equal, out of order), up to MaxRecent messages stamped in order, and a short
\* message followed by a long one
RawWindows ==
    { [i \in 1..Len(stamps) |-> WindowMessage(i, stamps[i])] :
        stamps \in UNION { [1..n -> 0..MaxStamp] : n \in 0..MaxSorted } }
    \cup { [i \in 1..n |-> WindowMessage(i, i)] : n \in 0..MaxRecent }
    \cup { << WindowMessage(1, 1), Message("assistant", content, 2) >> :
             content \in LongContents }

\* session_memory_context tried: get_memory_context() without a record, and
\* with each record a compaction can leave
MemoryContexts ==
    { GetMemoryContext(None), GetMemoryContext(Some(CreateMinimalSummary(<< 0, 0 >>, 1))) }
    \cup { GetMemoryContext(Some(o.value)) :
             o \in { x \in SummarizerOutcomes(<< 0, 0 >>, 1) : x.kind = "ok" } }

\* query texts tried
Queries == Inputs \cup { "" }

\* what _run_core_llm can return or do
LlmOutputs ==
    { [kind |-> "ok", value |-> OracleOutput(a, c, q, m)] :
        a \in BOOLEAN, c \in { "", "clarified" },
        q \in { << >>, << "q1", "q2" >> },
        m \in { << >>, << "fact" >>, << "fact", "goal" >> } }
    \cup { [kind |-> "raise", value |-> << >>] }

\* a caller about to call process_query with arguments of its choice
ContextInit ==
    /\ token_threshold = 9
    /\ recent_messages_window = None
    /\ keep_recent_after_summary = 0
    /\ current_summary = None
    /\ conversation_history = << >>
    /\ clock = 1
    /\ pc = "idle"
    /\ user_input = ""
    /\ summary_triggered = FALSE
    /\ query_understanding = None
    /\ response = None
    /\ obs = ObsInit
    /\ loader = LoaderInit
    /\ ops = 0
    /\ \E query \in Queries, recent_messages \in RawWindows,
          session_memory_context \in MemoryContexts, has_session_summary \in BOOLEAN :
          assembly = [AssemblyInit EXCEPT
                         !.phase = "args",
                         !.query = query,
                         !.recent_messages = recent_messages,
                         !.session_memory_context = session_memory_context,
                         !.has_session_summary = has_session_summary]

\* process_query (query_understanding.py:25-66) with those arguments
ProcessQueryCall ==
    /\ assembly.phase = "args"
    /\ \E o \in LlmOutputs :
          IF o.kind = "ok"
          THEN /\ assembly' = ProcessQuery(assembly.query, assembly.recent_messages,
                                           assembly.session_memory_context,
                                           assembly.has_session_summary, o.value)
               /\ query_understanding' = assembly'.result
          ELSE /\ assembly' = [assembly EXCEPT !.phase = "raised"]
               /\ query_understanding' = None
    /\ UNCHANGED << config, loader, memory, clock, pc, user_input, summary_triggered,
                    response, obs, ops >>

ContextNext == ProcessQueryCall

ContextSpec == ContextInit /\ [][ContextNext]_vars

\* ------------------------------ a conversation log written, then loaded
MaxRecords == 3
MaxRaw == 4

\* the calls of log_message tried: role, content, metadata
LogInputs ==
    { << "user", "hi", << >> >>,
      << "assistant", "a\"}{\\", << >> >>,
      << "user", "ok\n", << << "intent", JStr("{x") >> >> >> }

\* the call that writes the undamaged records of a damaged file
Filler == << "user", "hi", << >> >>

\* records are all written by the Filler call
AllFiller(records) ==
    \A k \in 1..Len(records) : records[k].role = Filler[1] /\ records[k].content = Filler[2]

\* the characters of a file written by something else
RawChars == {"{", "}", "\"", "\\", "x"}

\* spans that are no record, with balanced braces
Spans == {"{oops}", "{{}}", "{\"role\": \"user\" \"content\"}"}

\* text that lies between records
Strays == {"\"", "\\", "}", "note"}

\* control characters put into a content string
Injected == {"\n", "\r"}

\* how many characters of a content precede the control character put into it
InjectPlaces == UNION {0..Len(input[2]) : input \in LogInputs}

\* the sessions a log is loaded into: a fresh one, and one that has compacted
\* before and holds a message
Sessions ==
    { [current_summary |-> None, conversation_history |-> << >>],
      [current_summary |-> Some(CreateMinimalSummary(<< 0, 0 >>, 1)),
       conversation_history |-> << Message("assistant", "hello", 1) >>] }

\* a caller with an empty conversation log file
ParserInit ==
    /\ token_threshold = 9
    /\ recent_messages_window = None
    /\ keep_recent_after_summary = 0
    /\ \E session \in Sessions :
          /\ current_summary = session.current_summary
          /\ conversation_history = session.conversation_history
    /\ clock = 1
    /\ pc = "idle"
    /\ user_input = ""
    /\ summary_triggered = FALSE
    /\ query_understanding = None
    /\ response = None
    /\ obs = ObsInit
    /\ assembly = AssemblyInit
    /\ ops = 0
    /\ loader = [LoaderInit EXCEPT !.phase = "write"]

\* ConversationLogger.log_message (conversation_logger.py:41-58)
LogMessage(role, content, metadata, timestamp) ==
    /\ loader.phase = "write"
    /\ loader.fault.kind # "raw"
    /\ loader.fault.kind # "none" => << role, content, metadata >> = Filler
    /\ Len(loader.written) < MaxRecords
    /\ loader' = [loader EXCEPT
          !.lines = Append(@, LogLine(role, content, metadata, timestamp, clock)),
          !.written = Append(@, Message(role, content,
                                        IF timestamp # 0 THEN timestamp ELSE clock))]
    /\ clock' = IF timestamp # 0 THEN clock ELSE clock + 1
    /\ UNCHANGED << config, memory, pc, locals, obs, assembly, ops >>

\* where the content string of a written line starts: the characters before it
ContentOffset(record) == Len("{\"role\": ") + Len(JsonString(record.role))
                            + Len(", \"content\": \"")

\* the last line with s in place of its characters after the first keep
Damaged(lines, keep, s, rest) ==
    [lines EXCEPT ![Len(lines)] =
        SubSeq(@, 1, keep) \o s \o (IF rest THEN SubSeq(@, keep + 1, Len(@)) ELSE "\n")]

\* a control character gets into the content string of the record written
\* last: after its first at characters, or inside the escape sequence of the
\* character after them (split)
InjectControl(at, split, char) ==
    /\ loader.phase = "write"
    /\ loader.fault.kind = "none"
    /\ loader.written # << >>
    /\ AllFiller(SubSeq(loader.written, 1, Len(loader.written) - 1))
    /\ LET record == loader.written[Len(loader.written)]
           before == Len(EscapeRange(record.content, 1, at))
       IN  /\ at \in 0..Len(record.content)
           /\ split => /\ at < Len(record.content)
                       /\ Len(EscapeChar(SubSeq(record.content, at + 1, at + 1))) = 2
           /\ loader' = [loader EXCEPT
                 !.lines = Damaged(@, ContentOffset(record) + before
                                         + (IF split THEN 1 ELSE 0), char, TRUE),
                 !.fault = [kind |-> "inject", record |-> Len(loader.written),
                            at |-> at, split |-> split, char |-> char]]
    /\ UNCHANGED << config, memory, clock, pc, locals, obs, assembly, ops >>

\* the places a line is cut at
CutPlaces == {"brace", "role", "content", "end"}

\* how many characters of a line are left by a cut after its opening brace,
\* inside the role, inside the content, before its closing brace
CutPoint(record, line, place) ==
    CASE place = "brace" -> 1
      [] place = "role" -> Len("{\"role\": \"") + 1
      [] place = "content" -> ContentOffset(record) + 1
      [] OTHER -> Len(line) - 2

\* the record written last is cut short at a place
Truncate(place) ==
    /\ loader.phase = "write"
    /\ loader.fault.kind = "none"
    /\ loader.written # << >>
    /\ AllFiller(SubSeq(loader.written, 1, Len(loader.written) - 1))
    /\ LET cut == CutPoint(loader.written[Len(loader.written)],
                           loader.lines[Len(loader.lines)], place)
       IN  loader' = [loader EXCEPT
              !.lines = Damaged(@, cut, "", FALSE),
              !.fault = [NoFault EXCEPT !.kind = "truncate",
                                        !.record = Len(loader.written), !.at = cut]]
    /\ UNCHANGED << config, memory, clock, pc, locals, obs, assembly, ops >>

\* a line that is no record gets into the file, after the records written
WriteSpan(span) ==
    /\ loader.phase = "write"
    /\ loader.fault.kind = "none"
    /\ AllFiller(loader.written)
    /\ loader' = [loader EXCEPT
          !.lines = Append(@, span \o "\n"),
          !.fault = [NoFault EXCEPT !.kind = "span", !.record = Len(loader.written),
                                    !.at = Len(loader.lines) + 1]]
    /\ UNCHANGED << config, memory, clock, pc, locals, obs, assembly, ops >>

\* text that is no record gets into the file on a line of its own, after the
\* records written
WriteStray(stray) ==
    /\ loader.phase = "write"
    /\ loader.fault.kind = "none"
    /\ AllFiller(loader.written)
    /\ loader' = [loader EXCEPT
          !.lines = Append(@, stray \o "\n"),
          !.fault = [NoFault EXCEPT !.kind = "stray", !.record = Len(loader.written),
                                    !.at = Len(loader.lines) + 1, !.char = stray]]
    /\ UNCHANGED << config, memory, clock, pc, locals, obs, assembly, ops >>

\* a file written by something else, character by character
WriteRaw(ch) ==
    /\ loader.phase = "write"
    /\ loader.written = << >>
    /\ loader.fault.kind \in {"none", "raw"}
    /\ Len(loader.lines) <= 1
    /\ (IF loader.lines = << >> THEN 0 ELSE Len(loader.lines[1])) < MaxRaw
    /\ loader' = [loader EXCEPT
          !.lines = IF @ = << >> THEN << ch >> ELSE << @[1] \o ch >>,
          !.fault = [NoFault EXCEPT !.kind = "raw"]]
    /\ UNCHANGED << config, memory, clock, pc, locals, obs, assembly, ops >>

RECURSIVE Concat(_)
Concat(lines) == IF lines = << >> THEN "" ELSE Head(lines) \o Concat(Tail(lines))

\* load_conversation_log, lines 183-193: text = f.read() of a .jsonl file
OpenLog ==
    /\ loader.phase = "write"
    /\ loader' = [loader EXCEPT !.phase = "scan", !.text = Concat(loader.lines),
                                !.existing = conversation_history,
                                !.branch = "jsonl"]
    /\ UNCHANGED << config, memory, clock, pc, locals, obs, assembly, ops >>

\* load_conversation_log when open() or f.read() raises (lines 183, 187): the
\* outer except prints the error (lines 271-272)
OpenLogFails ==
    /\ loader.phase = "write"
    /\ loader' = [loader EXCEPT !.phase = "done", !.existing = conversation_history,
                                !.caught = "OSError"]
    /\ UNCHANGED << config, memory, clock, pc, locals, obs, assembly, ops >>

\* load_conversation_log of the same file under a name that does not end in
\* .jsonl (lines 252-260): json.load(f), then msg.get for each msg in the
\* value. The values the files tried decode to are objects and strings:
\* iterating one yields its keys or characters, which have no get.
LoadJsonArray ==
    /\ loader.phase = "write"
    /\ LET messages == JsonLoads(Concat(loader.lines))
       IN  loader' = [loader EXCEPT
              !.phase = "done",
              !.existing = conversation_history,
              !.branch = "json",
              !.text = Concat(loader.lines),
              !.caught = IF ~messages.ok THEN "JSONDecodeError"
                         ELSE IF messages.value = JStr("") \/ messages.value = JObj(<< >>)
                              THEN ""
                              ELSE "AttributeError"]
    /\ UNCHANGED << config, memory, clock, pc, locals, obs, assembly, ops >>

\* one iteration of the scan loop (lines 195-219)
ScanChar ==
    /\ loader.phase = "scan"
    /\ loader.i < Len(loader.text)
    /\ loader' = [ScanStep(loader, CharAt(loader.text, loader.i), loader.i)
                     EXCEPT !.i = loader.i + 1]
    /\ UNCHANGED << config, memory, clock, pc, locals, obs, assembly, ops >>

ScanEndDroppingChunks ==
    /\ loader.phase = "scan"
    /\ loader.i = Len(loader.text)
    /\ loader' = [loader EXCEPT
          !.phase = "decode",
          !.chunks = IF loader.brace_depth # 0 THEN << >> ELSE @,
          !.warnings = IF loader.brace_depth # 0
                       THEN Append(@, "Unbalanced braces") ELSE @]
    /\ UNCHANGED << config, memory, clock, pc, locals, obs, assembly, ops >>

\* the end of the scan (lines 221-226)
ScanEnd ==
    /\ loader.phase = "scan"
    /\ loader.i = Len(loader.text)
    /\ loader' = [loader EXCEPT
          !.phase = "decode",
          !.warnings = IF loader.brace_depth # 0
                       THEN Append(@, "Unbalanced braces") ELSE @]
    /\ UNCHANGED << config, memory, clock, pc, locals, obs, assembly, ops >>

DecodeChunkAborting ==
    /\ loader.phase = "decode"
    /\ loader.next < Len(loader.chunks)
    /\ LET raw_chunk == loader.chunks[loader.next + 1]
           sanitized == Sanitize(raw_chunk)
           msg == JsonLoads(sanitized)
           timestamp == TimestampValue(DictGet(msg.value.items, "timestamp", JStr("")))
       IN  IF ~msg.ok
           THEN /\ loader' = [loader EXCEPT
                      !.phase = "done",
                      !.warnings = Append(@, "Skipped an invalid JSONL entry")]
                /\ UNCHANGED << conversation_history, clock >>
           ELSE /\ conversation_history' =
                      AddMessageTo(conversation_history,
                                   Plain(DictGet(msg.value.items, "role", JStr("user"))),
                                   Plain(DictGet(msg.value.items, "content", JStr(""))),
                                   timestamp, clock)
                /\ clock' = IF timestamp # 0 THEN clock ELSE clock + 1
                /\ loader' = [loader EXCEPT !.next = @ + 1, !.loaded = @ + 1]
    /\ UNCHANGED << config, current_summary, pc, locals, obs, assembly, ops >>

DecodeChunkPrepending ==
    /\ loader.phase = "decode"
    /\ loader.next < Len(loader.chunks)
    /\ LET raw_chunk == loader.chunks[loader.next + 1]
           sanitized == Sanitize(raw_chunk)
           msg == JsonLoads(sanitized)
           timestamp == TimestampValue(DictGet(msg.value.items, "timestamp", JStr("")))
       IN  IF ~msg.ok
           THEN /\ loader' = [loader EXCEPT
                      !.next = @ + 1,
                      !.warnings = Append(@, "Skipped an invalid JSONL entry")]
                /\ UNCHANGED << conversation_history, clock >>
           ELSE /\ conversation_history' =
                      SubSeq(AddMessageTo(conversation_history,
                                   Plain(DictGet(msg.value.items, "role", JStr("user"))),
                                   Plain(DictGet(msg.value.items, "content", JStr(""))),
                                   timestamp, clock),
                             Len(conversation_history) + 1, Len(conversation_history) + 1)
                      \o conversation_history
                /\ clock' = IF timestamp # 0 THEN clock ELSE clock + 1
                /\ loader' = [loader EXCEPT !.next = @ + 1, !.loaded = @ + 1]
    /\ UNCHANGED << config, current_summary, pc, locals, obs, assembly, ops >>

\* one iteration of the chunk loop (lines 227-246)
DecodeChunk ==
    /\ loader.phase = "decode"
    /\ loader.next < Len(loader.chunks)
    /\ LET raw_chunk == loader.chunks[loader.next + 1]
           sanitized == Sanitize(raw_chunk)
           msg == JsonLoads(sanitized)
           timestamp == TimestampValue(DictGet(msg.value.items, "timestamp", JStr("")))
       IN  IF ~msg.ok
           THEN /\ loader' = [loader EXCEPT
                      !.next = @ + 1,
                      !.warnings = Append(@, "Skipped an invalid JSONL entry")]
                /\ UNCHANGED << conversation_history, clock >>
           ELSE /\ conversation_history' =
                      AddMessageTo(conversation_history,
                                   Plain(DictGet(msg.value.items, "role", JStr("user"))),
                                   Plain(DictGet(msg.value.items, "content", JStr(""))),
                                   timestamp, clock)
                /\ clock' = IF timestamp # 0 THEN clock ELSE clock + 1
                /\ loader' = [loader EXCEPT !.next = @ + 1, !.loaded = @ + 1]
    /\ UNCHANGED << config, current_summary, pc, locals, obs, assembly, ops >>

\* the end of the chunk loop (lines 248-251)
LoadEnd ==
    /\ loader.phase = "decode"
    /\ loader.next = Len(loader.chunks)
    /\ loader' = [loader EXCEPT
          !.phase = "done",
          !.warnings = IF loader.loaded = 0
                       THEN Append(@, "No valid messages were loaded") ELSE @]
    /\ UNCHANGED << config, memory, clock, pc, locals, obs, assembly, ops >>

ParserNext ==
    \/ \E input \in LogInputs : LogMessage(input[1], input[2], input[3], 0)
    \/ \E at \in InjectPlaces, split \in BOOLEAN, char \in Injected :
          InjectControl(at, split, char)
    \/ \E place \in CutPlaces : Truncate(place)
    \/ \E span \in Spans : WriteSpan(span)
    \/ \E stray \in Strays : WriteStray(stray)
    \/ \E ch \in RawChars : WriteRaw(ch)
    \/ OpenLog
    \/ OpenLogFails
    \/ LoadJsonArray
    \/ ScanChar
    \/ ScanEnd
    \/ DecodeChunk
    \/ LoadEnd

ParserSpec == ParserInit /\ [][ParserNext]_vars

Next ==
    \/ \E input \in Inputs : ProcessUserMessage(input)
    \/ TurnSummarize
    \/ TurnUnderstand
    \/ TurnRespond
    \/ TurnAppend
    \/ ManualSummarize
    \/ \E role \in {"system"}, content \in {"be brief"}, timestamp \in {0} :
          AddMessage(role, content, timestamp)
    \/ \E records \in Transcripts : LoadConversationLog(records)

Spec == Init /\ [][Next]_vars

\* ================================================================ claims
IsPrefix(a, b) == Len(a) <= Len(b) /\ SubSeq(b, 1, Len(a)) = a
IsSuffix(a, b) == Len(a) <= Len(b) /\ SubSeq(b, Len(b) - Len(a) + 1, Len(b)) = a
\* the last min(n, len) elements of s
LastN(s, n) == SubSeq(s, Len(s) - Min(n, Len(s)) + 1, Len(s))

\* the summarizer was called by the operation obs describes
Compacting == obs.llm.kind # "none"
\* the log as summarize_conversation found it
PreCompaction == obs.pre_history
\* the compacted range, from the log and the messages handed over
RangeFrom == Len(PreCompaction) - Len(obs.messages)
RangeTo == Len(PreCompaction) - 1
\* summarize_conversation has returned and nothing was appended since
AfterCompaction ==
    /\ Compacting
    /\ obs.raised = ""
    /\ \/ obs.kind = "manual"
       \/ obs.kind = "turn" /\ pc \in {"understand", "respond", "append"}
IsFallback(s) ==
    /\ s.conversation_state = "Conversation summary (parsing error occurred)"
    /\ s.user_context = Some([preferences |-> << >>, constraints |-> << >>, goals |-> << >>])
    /\ s.shared_context = << >>
    /\ s.open_threads = << >>

\* C1: should_summarize() is true exactly when the token size of the threshold
\* window (the last W messages when a window W is configured, else the whole
\* log; 0 tokens for an empty window) is at least the threshold.
C1_ShouldSummarizeIffWindowAtThreshold ==
    LET window == IF IsNone(recent_messages_window) THEN conversation_history
                  ELSE LastN(conversation_history, Get(recent_messages_window))
        size == IF window = << >> THEN 0 ELSE GetContextSize(window)
    IN  ShouldSummarize(conversation_history, recent_messages_window, token_threshold)
           <=> size >= token_threshold

C3_ScopeToBelowAppendIndex ==
    (obs.kind = "turn" /\ Compacting /\ obs.outcome = "ok") =>
        Get(current_summary).scope.to < obs.appended_at

\* C3 (amended): in a turn that compacts, the range handed to the summarizer
\* ends at len(log) - 1 of the log as it stood before the turn, so below the
\* index len(log) the input would take in the untrimmed log; a fallback record
\* carries that end as scope.to; the input itself is appended at the length of
\* the trimmed log.
C3_RangeEndsBeforeInput ==
    (obs.kind = "turn" /\ Compacting) =>
        /\ obs.range[2] = Len(obs.pre_history) - 1
        /\ obs.range[2] < Len(obs.pre_history)
        /\ (obs.llm.kind = "raise" => Get(current_summary).scope.to = obs.range[2])
        /\ (obs.outcome = "ok" =>
               obs.appended_at =
                  Len(TrimHistory(obs.pre_history, obs.messages, obs.range[1],
                                  keep_recent_after_summary)))

C3_Witness ==
    /\ obs.kind = "turn"
    /\ Compacting
    /\ obs.outcome = "ok"
    /\ obs.appended_at <= obs.range[2]

\* C4: after a compaction the active record's scope is the compacted range
\* {from: len(log) - len(range), to: len(log) - 1}, whatever the summarizer returned.
C4_RecordScopeIsCompactedRange ==
    (Compacting /\ obs.raised = "") =>
        Get(current_summary).scope = [from |-> RangeFrom, to |-> RangeTo]

\* C5: when the summarizer fails, summarize_conversation does not raise for it
\* and the active record is the fallback: placeholder state, empty lists, the
\* computed range as scope.
C5_SummarizerFailureYieldsFallback ==
    obs.llm.kind = "raise" =>
        /\ obs.raised \in {"", "OSError"}
        /\ obs.save_ok => obs.raised = ""
        /\ ~IsNone(current_summary)
        /\ IsFallback(Get(current_summary))
        /\ Get(current_summary).scope = [from |-> RangeFrom, to |-> RangeTo]

C5_Witness ==
    /\ obs.llm.kind = "raise"
    /\ obs.raised = ""
    /\ RangeFrom > 0

\* the log a completed turn leaves: the log after the compaction, then the
\* turn's user message, then the assistant's reply
TurnAppended(before) ==
    /\ Len(conversation_history) = Len(before) + 2
    /\ IsPrefix(before, conversation_history)
    /\ conversation_history[Len(before) + 1].role = "user"
    /\ conversation_history[Len(before) + 1].content = obs.input
    /\ conversation_history[Len(before) + 2].role = "assistant"

C7_KeepsPrefixAndLastK ==
    (AfterCompaction /\ keep_recent_after_summary > 0
       /\ Len(obs.messages) > keep_recent_after_summary) =>
        conversation_history =
           SubSeq(PreCompaction, 1, RangeFrom)
              \o LastN(obs.messages, keep_recent_after_summary)

\* C8: for K = 0 the compaction removes the whole range and keeps exactly the
\* messages that preceded it, in order; the log is empty if the range was the
\* whole log.
C8_KeepZeroRemovesRange ==
    (AfterCompaction /\ keep_recent_after_summary = 0) =>
        /\ conversation_history = SubSeq(PreCompaction, 1, RangeFrom)
        /\ obs.messages = PreCompaction => conversation_history = << >>

C8_Witness ==
    /\ AfterCompaction
    /\ keep_recent_after_summary = 0
    /\ RangeFrom > 0
    /\ Len(obs.messages) > 0

\* the record this compaction built: what the summarizer returned, or the
\* fallback for the computed range
BuiltRecord ==
    IF obs.llm.kind = "ok" THEN obs.llm.value
    ELSE [memory_id |-> << "mem_", obs.stamp >>,
          created_at |-> obs.stamp,
          conversation_state |-> "Conversation summary (parsing error occurred)",
          user_context |-> Some([preferences |-> << >>, constraints |-> << >>,
                                 goals |-> << >>]),
          shared_context |-> << >>,
          open_threads |-> << >>,
          scope |-> [from |-> RangeFrom, to |-> RangeTo]]

\* C9: there is at most one active record, and after a compaction it is exactly
\* the record that compaction built, with nothing of the previous record in it.
C9_NewRecordSupersedes ==
    /\ Len(current_summary) <= 1
    /\ Compacting => current_summary = Some(BuiltRecord)

C9_Witness ==
    /\ Compacting
    /\ ~IsNone(obs.pre_summary)
    /\ Get(obs.pre_summary).shared_context # << >>
    /\ current_summary # obs.pre_summary

\* a step that runs summarize_conversation
CompactionStep == TurnSummarize \/ ManualSummarize

\* C10: only a compaction removes or reorders messages of the log: every other
\* step leaves the previous log as a prefix of the new one.
C10_OnlyCompactionTrims ==
    [][CompactionStep \/ IsPrefix(conversation_history, conversation_history')]_vars

C10_Witness ==
    /\ obs.kind \in {"load", "append"}
    /\ obs.pre_history # << >>
    /\ Len(conversation_history) > Len(obs.pre_history)
    /\ ~IsNone(current_summary)

\* the turn obs describes ended because the oracle or the generator failed
TurnFailed == obs.kind = "turn" /\ obs.outcome \in {"OracleError", "GeneratorError"}

\* the log the compaction of the turn obs describes left (the pre-turn log if
\* the check did not fire)
LogAfterCheck ==
    IF obs.entered
    THEN TrimHistory(obs.pre_history, obs.messages, obs.range[1],
                     keep_recent_after_summary)
    ELSE obs.pre_history

\* C11 (as claimed): when the oracle or the generator fails in a turn, the
\* failure reaches the caller and the log is the log as it was before the turn
\* began, also when the compaction check fired in that turn.
C11_FailedTurnLeavesPreTurnLog ==
    TurnFailed =>
        /\ pc = "idle"
        /\ response = None
        /\ conversation_history = obs.pre_history

\* C11 (amended): when the oracle or the generator fails in a turn, the failure
\* reaches the caller (the turn is over, no response) and neither message of
\* the turn is appended: the log is the pre-turn log when no compaction ran, and
\* the log as the turn's compaction left it otherwise.
C11_FailedTurnAppendsNothing ==
    TurnFailed =>
        /\ pc = "idle"
        /\ response = None
        /\ query_understanding = None
        /\ conversation_history = LogAfterCheck
        /\ ~obs.entered => conversation_history = obs.pre_history

C11_Witness ==
    /\ TurnFailed
    /\ obs.outcome = "GeneratorError"
    /\ obs.entered
    /\ conversation_history # obs.pre_history

\* the order in which the position inside process_user_message may change
TurnOrder ==
    { << "idle", "summarize" >>, << "idle", "understand" >>,
      << "summarize", "understand" >>, << "summarize", "idle" >>,
      << "understand", "respond" >>, << "understand", "idle" >>,
      << "respond", "append" >>, << "respond", "idle" >>,
      << "append", "idle" >> }

C13_NoCollaboratorRetried ==
    /\ obs.summarizer_calls <= 1
    /\ obs.oracle_calls <= 1
    /\ obs.generator_calls <= 1
    /\ obs.llm.kind = "raise" => obs.summarizer_calls = 1
    /\ obs.outcome = "OracleError" =>
          pc = "idle" /\ obs.oracle_calls = 1 /\ obs.generator_calls = 0
    /\ obs.outcome = "GeneratorError" =>
          pc = "idle" /\ obs.oracle_calls = 1 /\ obs.generator_calls = 1

C13_Witness ==
    /\ obs.kind = "turn"
    /\ obs.llm.kind = "raise"
    /\ obs.outcome = "OracleError"
    /\ obs.summarizer_calls = 1

\* _build_final_context has returned: its arguments and its locals
Built == assembly.phase = "built"
Args == Get(assembly.llm_output)
Locals == Get(assembly.built)

\* a line of the recent-messages block for a message: its role and the first
\* 400 characters of its content
Line(m) ==
    m.role \o ": "
       \o (IF Len(m.content) > 400 THEN SubSeq(m.content, 1, 400) ELSE m.content)

\* C14: built with an active record (has_session_summary true), the
\* recent-messages block has exactly 5 entries for a window of any size n:
\* 5 - m placeholders (role "(none)", content "(no earlier message)") and then
\* the last m = min(5, n) messages of the window in their order.
C14_FiveEntriesPadded ==
    (Built /\ assembly.has_session_summary) =>
        LET window == assembly.recent_messages
            n == Len(window)
            m == Min(5, n)
            expected == [i \in 1..5 |->
                            IF i <= 5 - m
                            THEN [role |-> "(none)", content |-> "(no earlier message)"]
                            ELSE window[n - 5 + i]]
        IN  /\ Len(Locals.recent_slice) = 5
            /\ Locals.recent_slice = expected
            /\ Locals.recent_block =
                   Line(expected[1]) \o "\n" \o Line(expected[2]) \o "\n"
                      \o Line(expected[3]) \o "\n" \o Line(expected[4]) \o "\n"
                      \o Line(expected[5])

C14_Witness ==
    /\ Built
    /\ assembly.has_session_summary
    /\ Len(assembly.recent_messages) = 3
    /\ Locals.recent_slice[2].role = "(none)"
    /\ Locals.recent_slice[3] = assembly.recent_messages[1]

\* C15: in a turn processed while there is no active record, the
\* recent-messages section of the final context is the entire raw window in
\* chronological order, not the 5-entry padded block.
C15_NoRecordTurnShowsWholeWindow ==
    (pc \in {"respond", "append"} /\ IsNone(current_summary)) =>
        /\ Locals.recent_slice = obs.recent_messages
        /\ \A i \in 1..Len(Locals.recent_slice) : Locals.recent_slice[i].role # "(none)"
        /\ Locals.recent_label = "RECENT MESSAGES"

\* message j of the window sorts before message i: by the 26-character prefix
\* of the timestamp, then by position
Before(window, j, i) ==
    \/ TimestampPrefix(window[j].timestamp) < TimestampPrefix(window[i].timestamp)
    \/ /\ TimestampPrefix(window[j].timestamp) = TimestampPrefix(window[i].timestamp)
       /\ j < i

\* C16: built without an active record (has_session_summary false), the
\* recent-messages block is a permutation of the whole window in ascending
\* (first 26 characters of the timestamp, original position): each message
\* stands after exactly the messages that sort before it, so equal or missing
\* timestamps keep their relative order.
C16_WindowSortedByPrefixThenPosition ==
    (Built /\ ~assembly.has_session_summary) =>
        LET window == assembly.recent_messages
            n == Len(window)
        IN  /\ Len(Locals.recent_slice) = n
            /\ \A i \in 1..n :
                  Locals.recent_slice[
                      Cardinality({ j \in 1..n : Before(window, j, i) }) + 1] = window[i]
            /\ Len(Locals.recent_lines) = n
            /\ \A k \in 1..n : Locals.recent_lines[k] = Line(Locals.recent_slice[k])

C16_Witness ==
    /\ Built
    /\ ~assembly.has_session_summary
    /\ Len(assembly.recent_messages) = 3
    /\ assembly.recent_messages[1].timestamp = 4
    /\ assembly.recent_messages[2].timestamp = 3
    /\ assembly.recent_messages[3].timestamp = 0
    /\ Locals.recent_slice = << assembly.recent_messages[3], assembly.recent_messages[1],
                                assembly.recent_messages[2] >>

\* the query section: both texts, the clarified one replaced by the original
\* when empty
QuerySection ==
    "ORIGINAL QUERY:\n" \o assembly.query \o "\n\nCLARIFIED QUERY:\n"
       \o (IF Args.clarified_query = "" THEN assembly.query ELSE Args.clarified_query)

\* questions rendered one per line
RECURSIVE QuestionLines(_)
QuestionLines(questions) ==
    IF Len(questions) = 1 THEN "- " \o questions[1]
    ELSE "- " \o questions[1] \o "\n" \o QuestionLines(Tail(questions))

\* the CLARIFYING_QUESTIONS section, present for an ambiguous query with questions
ClarifyingSection ==
    IF Args.is_ambiguous /\ Args.clarifying_questions # << >>
    THEN "\n\nCLARIFYING_QUESTIONS (query was ambiguous; use these to ask the user naturally, not as a rigid list):\n"
            \o QuestionLines(Args.clarifying_questions)
    ELSE ""

C18_ClarifiedQueryFallsBackToOriginal ==
    (pc \in {"respond", "append"} /\ Get(query_understanding).original_query # "") =>
        /\ Get(query_understanding).clarified_query # ""
        /\ Args.clarified_query = "" =>
              /\ Get(query_understanding).clarified_query =
                     Get(query_understanding).original_query
              /\ Locals.original_block = QuerySection \o ClarifyingSection

\* C19 (as claimed): the conversation-state section is "(none)" exactly when
\* there is no active record, and the record's conversation_state otherwise.
C19_StateSectionNoneIffNoRecord ==
    pc \in {"respond", "append"} =>
        /\ Locals.conversation_state = "(none)" <=> IsNone(current_summary)
        /\ ~IsNone(current_summary) =>
              Locals.conversation_state = Get(current_summary).conversation_state

\* C19 (amended): the conversation-state section is "(none)" when there is no
\* active record or the active record's conversation_state is empty, and the
\* record's conversation_state otherwise.
C19_StateSectionOrPlaceholder ==
    pc \in {"respond", "append"} =>
        Locals.conversation_state =
           IF IsNone(current_summary) \/ Get(current_summary).conversation_state = ""
           THEN "(none)"
           ELSE Get(current_summary).conversation_state

C19_Witness ==
    /\ pc = "respond"
    /\ ~IsNone(current_summary)
    /\ Get(current_summary).conversation_state = ""
    /\ Locals.conversation_state = "(none)"

\* C20: the selected-memory section is the single line "None." exactly when
\* the selected-memory sequence is empty, and otherwise has one line per
\* snippet, in the sequence's order.
C20_SelectedMemoryOrNone ==
    Built =>
        LET selected == Args.selected_memory
            expected == IF selected = << >> THEN "None." ELSE QuestionLines(selected)
        IN  /\ Locals.selected_block = "None." <=> selected = << >>
            /\ Locals.selected_block = expected
            /\ Locals.final_context =
                   Locals.original_block \o "\n\n"
                      \o "CONVERSATION STATE:\n" \o Locals.conversation_state \o "\n\n"
                      \o "SELECTED MEMORY:\n" \o expected \o "\n\n"
                      \o Locals.recent_label \o ":\n" \o Locals.recent_block

C20_Witness ==
    /\ Built
    /\ Len(Args.selected_memory) = 2
    /\ Locals.selected_block = "- fact\n- goal"

\* C21: every line of the recent-messages block carries at most the first 400
\* characters of its message's content, cut hard, and a content of 400
\* characters or fewer is rendered unchanged.
C21_LinesCarryFirst400Characters ==
    Built =>
        /\ Len(Locals.recent_lines) = Len(Locals.recent_slice)
        /\ \A k \in 1..Len(Locals.recent_slice) :
              LET m == Locals.recent_slice[k]
                  line == Locals.recent_lines[k]
              IN  /\ Len(line) <= Len(m.role) + 2 + 400
                  /\ Len(m.content) <= 400 => line = m.role \o ": " \o m.content
                  /\ Len(m.content) > 400 =>
                        line = m.role \o ": " \o SubSeq(m.content, 1, 400)
        /\ Locals.recent_block = JoinLines(Locals.recent_lines)

C21_Witness ==
    /\ Built
    /\ Len(assembly.recent_messages) = 2
    /\ Len(assembly.recent_messages[2].content) = 402
    /\ Len(Locals.recent_lines[Len(Locals.recent_lines)]) = 411

\* C27: the window the threshold check measures and the range a compaction
\* hands to the summarizer are the same messages: exactly the last
\* min(W, len(log)) messages when a window W is configured, the entire log when
\* none is.
C27_CheckWindowIsCompactionRange ==
    LET W == recent_messages_window
        expected(log) == IF IsNone(W) THEN log ELSE LastN(log, Min(Get(W), Len(log)))
    IN  /\ ContextWindow(conversation_history, W) = expected(conversation_history)
        /\ GetRecentMessagesForSummarization(conversation_history, W)
              = expected(conversation_history)
        /\ Compacting => obs.messages = expected(PreCompaction)

C29_ShortRangeLeavesLogUnchanged ==
    (AfterCompaction /\ keep_recent_after_summary > 0
       /\ keep_recent_after_summary >= Len(obs.messages)
       /\ Len(PreCompaction) <= Len(obs.messages) + keep_recent_after_summary) =>
        /\ conversation_history = PreCompaction
        /\ current_summary = Some(BuiltRecord)

C29_Witness ==
    /\ AfterCompaction
    /\ keep_recent_after_summary > 0
    /\ keep_recent_after_summary >= Len(obs.messages)
    /\ Len(PreCompaction) <= Len(obs.messages) + keep_recent_after_summary
    /\ Len(PreCompaction) > keep_recent_after_summary
    /\ ~IsNone(obs.pre_summary)
    /\ current_summary # obs.pre_summary
    /\ conversation_history = PreCompaction

\* the load_conversation_log call has returned
Loaded == loader.phase = "done" /\ loader.branch = "jsonl"
\* the damage done to the file before it was loaded
Fault == loader.fault
\* the records log_message was called with
Written == loader.written
\* the messages the load appended to the log it found
Ingested ==
    SubSeq(conversation_history, Len(loader.existing) + 1, Len(conversation_history))
WithoutRecord(records, k) == SubSeq(records, 1, k - 1) \o SubSeq(records, k + 1, Len(records))
Warned(warning) == \E k \in 1..Len(loader.warnings) : loader.warnings[k] = warning
Skipped ==
    Cardinality({k \in 1..Len(loader.warnings) :
                    loader.warnings[k] = "Skipped an invalid JSONL entry"})

\* C22: a file of N records written by log_message, one per line, loads back as
\* exactly N messages, in order, each with the role, content and timestamp
\* written.
C22_WrittenRecordsLoadBack ==
    (Loaded /\ Fault.kind = "none") =>
        /\ loader.loaded = Len(Written)
        /\ Ingested = Written

C22_Witness ==
    /\ Loaded
    /\ Fault.kind = "none"
    /\ Len(Written) = 3
    /\ \E k \in 1..3 : Written[k].content = "a\"}{\\"
    /\ \E k \in 1..3 : Written[k].content = "ok\n"
    /\ Ingested = Written

\* C23: with a literal newline (or another control character below 0x20, tab
\* excepted) put anywhere inside the content string of one record of an N-record
\* file, the load still yields exactly N records, and the decoded content has a
\* single space where the control character was.
C23_InjectedControlCharBecomesSpace ==
    (Loaded /\ Fault.kind = "inject") =>
        LET original == Written[Fault.record]
            expected == [original EXCEPT
                            !.content = SubSeq(@, 1, Fault.at) \o " "
                                           \o SubSeq(@, Fault.at + 1, Len(@))]
        IN  /\ loader.loaded = Len(Written)
            /\ Ingested = [Written EXCEPT ![Fault.record] = expected]

\* C24: with one record cut short (its braces unbalanced) between two valid
\* records, both valid records are loaded, in order, and a warning is emitted.
C24_ValidRecordsAroundTruncatedLoad ==
    (Loaded /\ Fault.kind = "truncate"
       /\ 1 < Fault.record /\ Fault.record < Len(Written)) =>
        /\ Ingested = WithoutRecord(Written, Fault.record)
        /\ loader.warnings # << >>

\* C25: a span with balanced braces that does not decode is skipped with a
\* warning, and every other span, before and after it, is still decoded and
\* appended in order.
C25_UndecodableSpanSkipped ==
    (Loaded /\ Fault.kind = "span") =>
        /\ Len(loader.chunks) = Len(Written) + 1
        /\ Warned("Skipped an invalid JSONL entry")
        /\ loader.loaded = Len(Written)
        /\ Ingested = Written

C25_Witness ==
    /\ Loaded
    /\ Fault.kind = "span"
    /\ Fault.record = 1
    /\ Len(Written) = 3
    /\ Skipped = 1
    /\ Ingested = Written

\* C26: the unbalanced-braces warning is emitted exactly when the brace depth is
\* not 0 at the end of the input; the load then still runs to its end over
\* every span closed before it: each is decoded or skipped, and the records of
\* a file that precede a record cut short are loaded.
C26_UnbalancedEndWarnsAndKeepsClosedSpans ==
    /\ loader.phase \in {"decode", "done"} =>
          (Warned("Unbalanced braces") <=> loader.brace_depth # 0)
    /\ Loaded =>
          /\ loader.next = Len(loader.chunks)
          /\ loader.loaded + Skipped = Len(loader.chunks)
    /\ (Loaded /\ Fault.kind = "truncate") =>
          /\ Len(loader.chunks) >= Fault.record - 1
          /\ IsPrefix(SubSeq(Written, 1, Fault.record - 1), Ingested)

C26_Witness ==
    /\ Loaded
    /\ Fault.kind = "truncate"
    /\ Fault.record = 3
    /\ loader.brace_depth # 0
    /\ Warned("Unbalanced braces")
    /\ Ingested = SubSeq(Written, 1, 2)

\* an iteration of the scan loop
ScanStepTaken ==
    /\ loader.phase = "scan"
    /\ loader'.phase = "scan"
    /\ loader'.i = loader.i + 1

\* C30: the scanner closes a candidate only at a '}' outside any quoted string
\* that returns the depth to 0, and the candidate runs from a '{' seen at depth
\* 0 outside any string; a brace inside a quoted string never changes the
\* depth; a quote escaped by a backslash inside a string does not end the
\* string; so each written record, nested objects included, is one candidate.
C30_CandidateClosesAtOuterBrace ==
    [][ /\ ScanStepTaken =>
             LET ch == CharAt(loader.text, loader.i)
             IN  /\ loader'.chunks # loader.chunks =>
                       /\ ch = "}"
                       /\ ~loader.in_string
                       /\ loader.brace_depth = 1
                       /\ loader'.brace_depth = 0
                       /\ ~IsNone(loader.start_idx)
                       /\ CharAt(loader.text, Get(loader.start_idx)) = "{"
                       /\ loader'.chunks =
                             Append(loader.chunks,
                                    Slice(loader.text, Get(loader.start_idx), loader.i + 1))
                 /\ (loader'.start_idx # loader.start_idx /\ ~IsNone(loader'.start_idx)) =>
                       /\ ch = "{"
                       /\ ~loader.in_string
                       /\ loader.brace_depth = 0
                       /\ loader'.start_idx = Some(loader.i)
                 /\ loader.in_string => loader'.brace_depth = loader.brace_depth
                 /\ (loader.in_string /\ loader.escape /\ ch = "\"") => loader'.in_string
        /\ (loader'.phase = "decode" /\ loader'.fault.kind = "none") =>
             loader'.chunks = [k \in 1..Len(loader'.lines) |->
                                  SubSeq(loader'.lines[k], 1, Len(loader'.lines[k]) - 1)]
      ]_vars

C30_Witness ==
    /\ loader.phase = "decode"
    /\ Fault.kind = "none"
    /\ Len(loader.chunks) = 3
    /\ \E k \in 1..3 : Written[k].content = "a\"}{\\"
    /\ \E k \in 1..3 :
          /\ Written[k].content = "ok\n"
          /\ loader.chunks[k] =
                "{\"role\": \"user\", \"content\": \"ok\\n\", \"timestamp\": \""
                   \o IsoFormat(k) \o "\", \"metadata\": {\"intent\": \"{x\"}}"

\* the two messages a turn appends for an input and a response, stamped from now
TurnMessages(input, reply, now) ==
    << Message("user", input, now), Message("assistant", reply, now + 1) >>

RECURSIVE IsSubsequence(_, _)
IsSubsequence(a, b) ==
    IF a = << >> THEN TRUE
    ELSE IF b = << >> THEN FALSE
    ELSE IF Head(a) = Head(b) THEN IsSubsequence(Tail(a), Tail(b))
    ELSE IsSubsequence(a, Tail(b))

\* C33: for every W and K the log after a compaction is an order-preserving
\* subsequence of the log before it (nothing duplicated, reordered or
\* invented), so it is never longer than before.
C33_TrimmedLogIsSubsequence ==
    AfterCompaction =>
        /\ IsSubsequence(conversation_history, PreCompaction)
        /\ Len(conversation_history) <= Len(PreCompaction)

\* C34 (as claimed): a compaction of a log holding more than K messages leaves
\* the log strictly shorter than before.
C34_CompactionShortensLog ==
    (AfterCompaction /\ Len(PreCompaction) > keep_recent_after_summary) =>
        Len(conversation_history) < Len(PreCompaction)

\* C34 (amended): a compaction of a log holding more than K messages whose
\* compacted range is longer than K leaves the log strictly shorter than
\* before; a compaction whose range holds at most K messages does not shorten
\* the log.
C34_LongRangeCompactionShortensLog ==
    /\ (AfterCompaction /\ Len(PreCompaction) > keep_recent_after_summary
          /\ Len(obs.messages) > keep_recent_after_summary) =>
            Len(conversation_history) < Len(PreCompaction)
    /\ (AfterCompaction /\ Len(obs.messages) <= keep_recent_after_summary) =>
            Len(conversation_history) >= Len(PreCompaction)

C34_Witness ==
    /\ AfterCompaction
    /\ keep_recent_after_summary > 0
    /\ Len(obs.messages) > keep_recent_after_summary
    /\ Len(PreCompaction) = Len(obs.messages) + keep_recent_after_summary
    /\ Len(conversation_history) < Len(PreCompaction)

\* C35: whenever should_summarize() is true the compaction range is not empty,
\* so the compaction of a turn never fails with "No messages to summarize",
\* for every threshold and every log, the empty log included.
C35_CheckImpliesRangeNotEmpty ==
    /\ ShouldSummarize(conversation_history, recent_messages_window, token_threshold) =>
          GetRecentMessagesForSummarization(conversation_history,
                                            recent_messages_window) # << >>
    /\ obs.kind = "turn" => obs.raised # "ValueError"

\* C36: compaction is all-or-nothing: if summarize_conversation raises, neither
\* the active record nor the log has changed; if it returns, the active record
\* is the new one and the trim has been applied.
C36_CompactionAllOrNothing ==
    (obs.entered /\ (obs.kind = "manual" \/ pc \in {"understand", "respond", "append"}
                       \/ obs.raised # "")) =>
        IF obs.raised # ""
        THEN /\ (obs.kind = "manual" \/ obs.outcome = obs.raised) =>
                   /\ current_summary = obs.pre_summary
                   /\ conversation_history = obs.pre_history
        ELSE /\ current_summary = Some(BuiltRecord)
             /\ conversation_history =
                   TrimHistory(obs.pre_history, obs.messages, obs.range[1],
                               keep_recent_after_summary)

\* C37: the active record is absent from the start of the session until the
\* first compaction; once present it is never absent again; appends, loads and
\* turns without compaction leave it unchanged: only a step that calls
\* summarize_conversation changes it.
C37_RecordPresentFromFirstCompaction ==
    [][ /\ ops = 0 => IsNone(current_summary)
        /\ ~IsNone(current_summary) => ~IsNone(current_summary')
        /\ current_summary' # current_summary =>
              /\ CompactionStep
              /\ obs'.entered
              /\ obs'.summarizer_calls = 1
        /\ (obs'.kind \in {"append", "load"} \/ (obs'.kind = "turn" /\ ~obs'.entered)) =>
              current_summary' = obs'.pre_summary
      ]_vars

C37_Witness ==
    /\ ~IsNone(current_summary)
    /\ obs.kind \in {"append", "load"}
    /\ obs.pre_summary = current_summary
    /\ Len(conversation_history) > Len(obs.pre_history)


\* C38: during the scan of any text the brace depth is never negative: a
\* closing brace met at depth 0 outside a string leaves the depth unchanged.
C38_BraceDepthNeverNegative ==
    loader.brace_depth >= 0


\* C39: text between top-level records, such as a stray quote, backslash or
\* closing brace, never changes which of the well-formed records after it are
\* extracted: each of them is loaded, in order, after the records before it.
C39_StrayTextKeepsLaterRecords ==
    (Loaded /\ Fault.kind = "stray") => Ingested = Written


\* the role and content of the records among the candidates that decode, in
\* the order of the text
RECURSIVE Transcript(_)
Transcript(chunks) ==
    IF chunks = << >> THEN << >>
    ELSE LET msg == JsonLoads(Sanitize(Head(chunks)))
         IN  (IF msg.ok
              THEN << << Plain(DictGet(msg.value.items, "role", JStr("user"))),
                         Plain(DictGet(msg.value.items, "content", JStr(""))) >> >>
              ELSE << >>) \o Transcript(Tail(chunks))

\* the session the log was loaded into
LoadedInto == CHOOSE session \in Sessions : session.conversation_history = loader.existing

\* C40: load_conversation_log never propagates an exception: a load that has
\* begun has a next step (the scan and the chunk loop stay inside the text and
\* the candidates) until it returns, and an exception raised inside it is
\* caught and ends it by a return. The messages already in the log
\* stay, unchanged and in front; the records ingested come after them in the
\* order of the transcript; the active record is left as it was.
C40_LoadAppendsAndAlwaysReturns ==
    /\ loader.phase = "scan" => loader.i <= Len(loader.text)
    /\ loader.phase = "decode" => loader.next <= Len(loader.chunks)
    /\ loader.phase # "write" =>
          /\ IsPrefix(loader.existing, conversation_history)
          /\ current_summary = LoadedInto.current_summary
          /\ loader.caught # "" => loader.phase = "done"
    /\ Loaded =>
          [i \in 1..Len(Ingested) |-> << Ingested[i].role, Ingested[i].content >>]
             = Transcript(loader.chunks)

\* a load into a session that holds a message and an active record has
\* ingested two records
C40_Witness ==
    /\ Loaded
    /\ loader.existing # << >>
    /\ ~IsNone(current_summary)
    /\ Len(Ingested) >= 2

====
